---- MODULE Spec2Model ----
(***************************************************************************)
(* A model of app.py, the PSIMF dashboard: the module-level loading of the *)
(* CSV files, the lru_cache in front of load_lcc_dataset, the reactive     *)
(* graph of server() (inputs, Calcs, outputs) and the pandas pipelines of  *)
(* the chart functions (boolean-index filter, pivot_table, groupby/agg).   *)
(*                                                                         *)
(* Frames are sequences of rows (records); aggregated values are exact     *)
(* rationals.  Every value of a CSV is a number: missing values (NaN) are  *)
(* outside the model.  Every output is bound and live, so a flush runs     *)
(* every invalidated output.                                               *)
(***************************************************************************)
EXTENDS Integers, Sequences, FiniteSets, TLC

VARIABLES
    pc,                     \* position in the import of the module
    cache,                  \* the lru_cache of load_lcc_dataset: name -> frame
    fetches,                \* read_csv_url calls made per url
    lastCall,               \* outcome of the latest load_lcc_dataset call
    hydro_variable_options, \* line 37
    county_list,            \* line 74
    wria_list,              \* line 75
    velma_list,             \* line 76
    watershed_choices,      \* choices of input_select velma_watershed, line 122
    sess,                   \* per session: inputs, Calc caches, outputs
    frame,                  \* argument df of a direct chart-function call
    region,                 \* argument region_name of that call
    chart                   \* what that call returned

vars == <<pc, cache, fetches, lastCall, hydro_variable_options, county_list,
          wria_list, velma_list, watershed_choices, sess, frame, region, chart>>

appVars == <<pc, cache, fetches, lastCall, hydro_variable_options, county_list,
             wria_list, velma_list, watershed_choices, sess>>

callVars == <<frame, region, chart>>

----------------------------------------------------------------------------
(* Bounds *)

\* sessions that may connect
NumSessions == 2

\* direct calls of load_lcc_dataset that may fetch, per name
MaxFetch == 3

\* reads of river CSVs by the process, the one at import included
MaxRiverFetches == 4

\* rivers of river_files, in key order, that a user may select
NumRivers == 2

\* rows of the frame handed to a direct chart-function call
MaxRows == 3

----------------------------------------------------------------------------
(* Exact rationals, for the means of pivot_table and agg *)

Abs(n) == IF n < 0 THEN -n ELSE n

RECURSIVE Gcd(_, _)
Gcd(a, b) == IF b = 0 THEN a ELSE Gcd(b, a % b)

Rat(n, d) ==
    LET g == Gcd(Abs(n), d)
    IN  [num |-> n \div g, den |-> d \div g]

RatAdd(a, b) == Rat(a.num * b.den + b.num * a.den, a.den * b.den)

RECURSIVE SeqSum(_)
SeqSum(s) == IF s = << >> THEN 0 ELSE Head(s) + SeqSum(Tail(s))

RECURSIVE SeqMin(_)
SeqMin(s) ==
    IF Len(s) = 1 THEN Head(s)
    ELSE LET m == SeqMin(Tail(s)) IN IF Head(s) < m THEN Head(s) ELSE m

RECURSIVE SeqMax(_)
SeqMax(s) ==
    IF Len(s) = 1 THEN Head(s)
    ELSE LET m == SeqMax(Tail(s)) IN IF Head(s) > m THEN Head(s) ELSE m

Range(s) == {s[i] : i \in DOMAIN s}

\* the element of a one-element set
Only(S) == CHOOSE x \in S : TRUE

\* the elements of a finite set of integers, in ascending order
RECURSIVE SortedInts(_)
SortedInts(S) ==
    IF S = {} THEN << >>
    ELSE LET m == CHOOSE x \in S : \A y \in S : x <= y
         IN  <<m>> \o SortedInts(S \ {m})

----------------------------------------------------------------------------
(* pandas *)

\* Series.unique().tolist(): the distinct values in order of first appearance
RECURSIVE Unique(_)
Unique(s) ==
    IF s = << >> THEN << >>
    ELSE LET init == Unique(SubSeq(s, 1, Len(s) - 1))
             x == s[Len(s)]
         IN  IF x \in Range(init) THEN init ELSE Append(init, x)

Column(df, col) == [i \in DOMAIN df |-> df[i][col]]

\* a frame has a column when its rows do; an empty frame keeps its header
HasColumn(df, col) == \A i \in DOMAIN df : col \in DOMAIN df[i]

MeanAgg(vals) == Rat(SeqSum(vals), Len(vals))

SumAgg(vals) == Rat(SeqSum(vals), 1)

Agg(aggfunc, vals) == IF aggfunc = "sum" THEN SumAgg(vals) ELSE MeanAgg(vals)

\* df.pivot_table(index="Year", columns="Landcover_Class", values=values,
\*                aggfunc=aggfunc, fill_value=fill_value)
pivot_table(df, values, aggfunc, fill_value) ==
    LET years == {df[i].Year : i \in DOMAIN df}
        classes == {df[i].Landcover_Class : i \in DOMAIN df}
        group(y, c) == SelectSeq(df, LAMBDA r : r.Year = y /\ r.Landcover_Class = c)
        cell(vals) == IF vals = << >> THEN Rat(fill_value, 1) ELSE Agg(aggfunc, vals)
    IN  [index |-> SortedInts(years),
         columns |-> classes,
         cell |-> [y \in years |-> [c \in classes |-> cell(Column(group(y, c), values))]]]

----------------------------------------------------------------------------
(* The registries, lines 26-61 and the choices of the widgets *)

\* keys of river_files in insertion order: list(river_files.keys()), line 138
river_keys ==
    <<"Pullayup", "Snohomish", "Green", "Samish", "Stillaguamish", "Hoko",
      "Elwha", "Deschutes">>

\* every url is written without its prefix, which all of them share:
\* https://uw-psi.github.io/shinyapp/data/
river_files ==
    [k \in Range(river_keys) |-> (IF k = "Samish" THEN "Sammish" ELSE k) \o ".csv"]

velma_files ==
    [k \in {"flow2011", "totC2011"} |->
        IF k = "flow2011" THEN "velma_monthly_flow_stats_2011.csv"
        ELSE "velma_monthly_C_stats_2011.csv"]

lcc_data == [k \in {"counties", "wrias", "velma"} |-> "diffed_" \o k \o ".csv"]

land_cover_colors ==
    [c \in {"Open Space", "Low Intensity", "Medium Intensity", "High Intensity",
            "Forest", "Agriculture"} |->
        CASE c = "Open Space" -> "#FFBEBE"
          [] c = "Low Intensity" -> "#FF7F7F"
          [] c = "Medium Intensity" -> "#E60000"
          [] c = "High Intensity" -> "#730000"
          [] c = "Forest" -> "#267300"
          [] c = "Agriculture" -> "#FFEBAF"]

\* choices of input_radio_buttons region_type, line 90
region_type_choices == <<"County", "WRIA", "VELMA watershed">>

\* choices of input_radio_buttons velma_var, lines 115-120
velma_var_choices == <<"flow2011", "temp2011", "totN2011", "totC2011">>

\* choices of input_select river, line 138
river_choices == river_keys

AllUrls == Range(river_files) \cup Range(velma_files) \cup Range(lcc_data)

\* an input that no widget has sent yet
NoValue == "<unset>"

----------------------------------------------------------------------------
(* The files behind the urls: small stand-ins with the columns the code reads *)

LccRow(f, y, c, d, a) ==
    [Feature_Name |-> f, Year |-> y, Landcover_Class |-> c, diff_dev |-> d,
     Developable_Area_km2 |-> a]

CountiesCsv ==
    <<LccRow("King", 2020, "Forest", -1, 3), LccRow("King", 2020, "Open Space", 2, 1),
      LccRow("King", 2021, "Forest", -2, 2), LccRow("Pierce", 2020, "Forest", -1, 4),
      LccRow("Pierce", 2021, "Wetland", 1, 1)>>

WriasCsv ==
    <<LccRow("Cedar", 2020, "Forest", -1, 2), LccRow("Cedar", 2021, "Agriculture", 1, 1)>>

VelmaCsv ==
    <<LccRow("Mashel", 2020, "Forest", 0, 5), LccRow("Mashel", 2021, "Forest", -1, 4)>>

HydroRow(y, d, q, t) == [Year |-> y, Day |-> d, Loop |-> 1, Step |-> d, Flow |-> q, Temp |-> t]

RiverCsv ==
    <<HydroRow(2000, 1, 3, 10), HydroRow(2000, 2, 6, 12), HydroRow(2001, 1, 4, 11)>>

RiverColumns == <<"Year", "Day", "Loop", "Step", "Flow", "Temp">>

VelmaFlowCsv ==
    <<[Watershed |-> "Mashel", Year |-> 2011, Month |-> 1, Mean |-> 2],
      [Watershed |-> "Ohop", Year |-> 2011, Month |-> 1, Mean |-> 1],
      [Watershed |-> "Mashel", Year |-> 2011, Month |-> 2, Mean |-> 3]>>

Remote(url) ==
    CASE url = lcc_data["counties"] -> CountiesCsv
      [] url = lcc_data["wrias"] -> WriasCsv
      [] url = lcc_data["velma"] -> VelmaCsv
      [] url \in Range(velma_files) -> VelmaFlowCsv
      [] OTHER -> RiverCsv

----------------------------------------------------------------------------
(* The loaders, lines 13-23 and 63-66 *)

\* read_csv_url(url): the frame, or the error of the transport or the parser;
\* open_url and pd.read_csv(url) read the same file
read_csv_url(url, ok) ==
    IF ok THEN [raised |-> FALSE, df |-> Remote(url)]
    ELSE [raised |-> TRUE, df |-> << >>]

Count(f, url) == [f EXCEPT ![url] = @ + 1]

\* the function under @lru_cache, called on a miss
LoadMiss(c, f, name, ok) ==
    IF name \notin DOMAIN lcc_data
    THEN [cache |-> c, fetches |-> f, name |-> name, raised |-> TRUE, hit |-> FALSE,
          fetched |-> FALSE]
    ELSE LET r == read_csv_url(lcc_data[name], ok)
         IN  [cache |-> IF r.raised THEN c ELSE (name :> r.df) @@ c,
              fetches |-> Count(f, lcc_data[name]),
              name |-> name, raised |-> r.raised, hit |-> FALSE, fetched |-> TRUE]

LoadHit(c, f, name) ==
    [cache |-> c, fetches |-> f, name |-> name, raised |-> FALSE, hit |-> TRUE,
     fetched |-> FALSE]

\* a loader that fetches on every call
LoadUncached(c, f, name, ok) == LoadMiss(c, f, name, ok)

\* a loader that remembers a failed fetch as an empty frame
LoadCachingFailure(c, f, name, ok) ==
    IF name \in DOMAIN c THEN LoadHit(c, f, name)
    ELSE LET m == LoadMiss(c, f, name, ok)
         IN  IF m.raised /\ m.fetched
             THEN [m EXCEPT !.cache = (name :> << >>) @@ c]
             ELSE m

\* load_lcc_dataset(name) behind lru_cache (maxsize 128, three names in use):
\* the post-state of the cache and of the fetch counts, and what the caller gets
load_lcc_dataset(c, f, name, ok) ==
    IF name \in DOMAIN c THEN LoadHit(c, f, name) ELSE LoadMiss(c, f, name, ok)

CallRecord(r) == [name |-> r.name, raised |-> r.raised, hit |-> r.hit, fetched |-> r.fetched]

NoCall == [name |-> NoValue, raised |-> FALSE, hit |-> FALSE, fetched |-> FALSE]

----------------------------------------------------------------------------
(* The chart functions of server(), lines 201-238 *)

\* df = df[df["Feature_Name"] == region_name]: a new frame bound to the local
\* name; src is the caller's frame after the statement, new the local one
FilterInPlace(df, region_name) ==
    LET kept == SelectSeq(df, LAMBDA r : r.Feature_Name = region_name)
    IN  [src |-> kept, new |-> kept]

FilterRegion(df, region_name) ==
    [src |-> df, new |-> SelectSeq(df, LAMBDA r : r.Feature_Name = region_name)]

NoPivot == [index |-> << >>, columns |-> {}, cell |-> << >>]

Colors(columns) ==
    [c \in columns |->
        IF c \in DOMAIN land_cover_colors THEN land_cover_colors[c] ELSE "#333333"]

\* pivot.plot(kind="bar", stacked=True, color=...): pandas raises TypeError
\* ("no numeric data to plot") on a frame without rows
BarChart(src, pivot, region_name, ylabel) ==
    IF pivot.index = << >>
    THEN [src |-> src, status |-> "error", pivot |-> NoPivot, colors |-> << >>,
          ylabel |-> ylabel, title |-> region_name]
    ELSE [src |-> src, status |-> "ok", pivot |-> pivot, colors |-> Colors(pivot.columns),
          ylabel |-> ylabel, title |-> region_name]

\* the pivot of make_lcc_plot with a fill value of -1
PivotDiffFillMinus(df) == pivot_table(df, "diff_dev", "mean", -1)

\* lines 203-208: aggfunc is not given, pivot_table's default is "mean"
PivotDiff(df) == pivot_table(df, "diff_dev", "mean", 0)

\* lines 222-228
PivotArea(df) == pivot_table(df, "Developable_Area_km2", "sum", 0)

make_lcc_plot(df, region_name) ==
    Only({BarChart(f.src, PivotDiff(f.new), region_name,
                   "Difference in km2 from baseline (2015)") :
          f \in {FilterRegion(df, region_name)}})

make_lcc_area_plot(df, region_name) ==
    Only({BarChart(f.src, PivotArea(f.new), region_name,
                   "Developable area in km2") :
          f \in {FilterRegion(df, region_name)}})

----------------------------------------------------------------------------
(* The Calcs and outputs of server(), lines 175-182 and 240-286.  A Calc or  *)
(* an output re-executes in a flush when something it read has changed; old  *)
(* is the session before the input message, new the session with the        *)
(* message's values set.                                                     *)

\* hydro_data re-runs when any input of the Hydrologic Explorer changed
HydroDataStaleOnAnyInput(old, new) ==
    old.river # new.river \/ old.variable # new.variable

\* hydro_data reads input.river() only
HydroDataStale(old, new) == old.river # new.river

\* hydro_summary reads hydro_data() and input.variable()
HydroSummaryStale(old, new) == HydroDataStale(old, new) \/ old.variable # new.variable

\* region_selector and selected_dataset read input.region_type() only
RegionTypeStale(old, new) == old.region_type # new.region_type

\* plot_lcc and plot_lcc_area read selected_dataset() and input.region_name()
PlotStale(old, new) == RegionTypeStale(old, new) \/ old.region_name # new.region_name

\* region_selector with the County and the WRIA branch exchanged
RegionSelectorSwapped(region_type, counties, wrias, velmas) ==
    IF region_type = "County" THEN wrias
    ELSE IF region_type = "VELMA watershed" THEN velmas
    ELSE counties

\* region_selector: the choices of the input_select it renders
region_selector(region_type, counties, wrias, velmas) ==
    IF region_type = "County" THEN counties
    ELSE IF region_type = "VELMA watershed" THEN velmas
    ELSE wrias

\* the else branch names a dataset that lcc_data does not have
DatasetNameMisspelt(region_type) ==
    IF region_type = "County" THEN "counties"
    ELSE IF region_type = "VELMA watershed" THEN "velma"
    ELSE "wria"

\* the name selected_dataset passes to load_lcc_dataset
DatasetName(region_type) ==
    IF region_type = "County" THEN "counties"
    ELSE IF region_type = "VELMA watershed" THEN "velma"
    ELSE "wrias"

NoCalc == [status |-> "none", name |-> NoValue]

\* selected_dataset: the Calc's value (the name of the cached frame it refers
\* to, or the error it re-raises), and the cache, the fetch counts and the
\* latest loader call after it
selected_dataset(old, new, c, f, call, ok) ==
    IF ~RegionTypeStale(old, new)
    THEN [calc |-> old.selected_dataset, cache |-> c, fetches |-> f, lastCall |-> call]
    ELSE LET ld == load_lcc_dataset(c, f, DatasetName(new.region_type), ok)
         IN  [calc |-> [status |-> IF ld.raised THEN "error" ELSE "ok", name |-> ld.name],
              cache |-> ld.cache, fetches |-> ld.fetches, lastCall |-> CallRecord(ld)]

NoOutput ==
    [status |-> "none", dataset |-> NoValue, region_name |-> NoValue, pivot |-> NoPivot,
     colors |-> << >>]

\* plot_lcc and plot_lcc_area around their chart function: the Calc's error
\* propagates; a region_name that was never sent cancels the output silently,
\* after selected_dataset() has been read.  cache is the cache after the call.
PlotOutput(old_out, stale, calc, c, region_name, area) ==
    IF ~stale THEN [cache |-> c, out |-> old_out]
    ELSE IF calc.status = "error"
    THEN [cache |-> c, out |-> [NoOutput EXCEPT !.status = "error"]]
    ELSE IF region_name = NoValue
    THEN [cache |-> c, out |-> [NoOutput EXCEPT !.status = "silent", !.dataset = calc.name]]
    ELSE Only({[cache |-> (calc.name :> ax.src) @@ c,
                out |-> [status |-> ax.status, dataset |-> calc.name,
                         region_name |-> region_name, pivot |-> ax.pivot,
                         colors |-> ax.colors]] :
               ax \in {IF area THEN make_lcc_area_plot(c[calc.name], region_name)
                       ELSE make_lcc_plot(c[calc.name], region_name)}})

plot_lcc(old, new, calc, c) ==
    PlotOutput(old.plot_lcc, PlotStale(old, new), calc, c, new.region_name, FALSE)

plot_lcc_area(old, new, calc, c) ==
    PlotOutput(old.plot_lcc_area, PlotStale(old, new), calc, c, new.region_name, TRUE)

NoHydro == [status |-> "none", river |-> NoValue, df |-> << >>]

\* hydro_data, lines 264-267: the Calc's value and the fetch counts after it
hydro_data(old, new, f, ok) ==
    IF ~HydroDataStale(old, new) THEN [calc |-> old.hydro_data, fetches |-> f]
    ELSE IF new.river \notin DOMAIN river_files
    THEN [calc |-> [status |-> "error", river |-> new.river, df |-> << >>], fetches |-> f]
    ELSE LET r == read_csv_url(river_files[new.river], ok)
         IN  [calc |-> [status |-> IF r.raised THEN "error" ELSE "ok",
                        river |-> new.river, df |-> r.df],
              fetches |-> Count(f, river_files[new.river])]

GroupYear(df, y) == SelectSeq(df, LAMBDA r : r.Year = y)

\* df.groupby("Year")[var].agg(["min", "max", "mean"]).reset_index()
Summary(df, var) ==
    LET years == SortedInts({df[i].Year : i \in DOMAIN df})
    IN  [k \in DOMAIN years |->
            Only({[Year |-> years[k], min |-> SeqMin(vals), max |-> SeqMax(vals),
                   mean |-> MeanAgg(vals)] :
                  vals \in {Column(GroupYear(df, years[k]), var)}})]

NoSummary == [status |-> "none", summary |-> << >>]

\* hydro_summary, lines 269-274: the Calc's value, and src, the frame of
\* hydro_data after it
hydro_summary(old, new, hd) ==
    IF ~HydroSummaryStale(old, new) THEN [calc |-> old.hydro_summary, src |-> hd.df]
    ELSE IF hd.status # "ok" \/ ~HasColumn(hd.df, new.variable)
    THEN [calc |-> [NoSummary EXCEPT !.status = "error"], src |-> hd.df]
    ELSE [calc |-> [status |-> "ok", summary |-> Summary(hd.df, new.variable)],
          src |-> hd.df]

NoPlot == [status |-> "none", summary |-> << >>, ylabel |-> NoValue, title |-> NoValue]

\* timeseries_plot keeping its last chart when hydro_summary() raises
TimeseriesPlotKeepsChart(old, new, hs) ==
    IF ~HydroSummaryStale(old, new) \/ hs.status # "ok" THEN old.timeseries_plot
    ELSE [status |-> "ok", summary |-> hs.summary, ylabel |-> new.variable,
          title |-> new.river]

\* timeseries_plot, lines 276-286
timeseries_plot(old, new, hs) ==
    IF ~HydroSummaryStale(old, new) THEN old.timeseries_plot
    ELSE IF hs.status # "ok" THEN [NoPlot EXCEPT !.status = "error"]
    ELSE [status |-> "ok", summary |-> hs.summary, ylabel |-> new.variable,
          title |-> new.river]

Closed ==
    [open |-> FALSE, region_type |-> NoValue, region_name |-> NoValue, river |-> NoValue,
     variable |-> NoValue, velma_var |-> NoValue, velma_watershed |-> NoValue,
     region_selector |-> << >>, pending |-> FALSE, selected_dataset |-> NoCalc,
     plot_lcc |-> NoOutput, plot_lcc_area |-> NoOutput, hydro_data |-> NoHydro,
     hydro_summary |-> NoSummary, timeseries_plot |-> NoPlot,
     fetched |-> {}]           \* history: the rivers hydro_data has fetched

----------------------------------------------------------------------------
(* Initial state *)

Sessions == 1 .. NumSessions

NoChart == [fn |-> NoValue, ax |-> BarChart(<< >>, NoPivot, NoValue, NoValue)]

Init ==
    /\ pc = "line36"
    /\ cache = << >>
    /\ fetches = [u \in AllUrls |-> 0]
    /\ lastCall = NoCall
    /\ hydro_variable_options = << >>
    /\ county_list = << >>
    /\ wria_list = << >>
    /\ velma_list = << >>
    /\ watershed_choices = << >>
    /\ sess = [s \in Sessions |-> Closed]
    /\ frame = << >>
    /\ region = NoValue
    /\ chart = NoChart

----------------------------------------------------------------------------
(* The import of the module, lines 36-122: any error ends the program *)

\* lines 36-37
ImportSample ==
    /\ pc = "line36"
    /\ \E ok \in BOOLEAN :
        LET r == read_csv_url(river_files["Pullayup"], ok)
        IN  /\ fetches' = Count(fetches, river_files["Pullayup"])
            /\ IF r.raised
               THEN /\ pc' = "aborted36"
                    /\ UNCHANGED hydro_variable_options
               ELSE /\ pc' = "line70"
                    /\ hydro_variable_options' =
                        SelectSeq(RiverColumns,
                                  LAMBDA col : col \notin {"Year", "Day", "Loop", "Step"})
    /\ UNCHANGED <<cache, lastCall, county_list, wria_list, velma_list,
                   watershed_choices, sess, callVars>>

\* lines 70-72, one call of load_lcc_dataset each
ImportLoad(name, at, next, abort) ==
    /\ pc = at
    /\ \E ok \in BOOLEAN :
        LET ld == load_lcc_dataset(cache, fetches, name, ok)
        IN  /\ cache' = ld.cache
            /\ fetches' = ld.fetches
            /\ lastCall' = CallRecord(ld)
            /\ pc' = IF ld.raised THEN abort ELSE next
    /\ UNCHANGED <<hydro_variable_options, county_list, wria_list, velma_list,
                   watershed_choices, sess, callVars>>

\* lines 74-76; df_counties, df_wrias and df_velma are the cached frames
ImportLists ==
    /\ pc = "line74"
    /\ county_list' = Unique(Column(cache["counties"], "Feature_Name"))
    /\ wria_list' = Unique(Column(cache["wrias"], "Feature_Name"))
    /\ velma_list' = Unique(Column(cache["velma"], "Feature_Name"))
    /\ pc' = "line122"
    /\ UNCHANGED <<cache, fetches, lastCall, hydro_variable_options, watershed_choices,
                   sess, callVars>>

\* line 122, inside the construction of app_ui
ImportUi ==
    /\ pc = "line122"
    /\ \E ok \in BOOLEAN :
        LET r == read_csv_url(velma_files["flow2011"], ok)
        IN  /\ fetches' = Count(fetches, velma_files["flow2011"])
            /\ IF r.raised
               THEN /\ pc' = "aborted122"
                    /\ UNCHANGED watershed_choices
               ELSE /\ pc' = "running"
                    /\ watershed_choices' = Unique(Column(r.df, "Watershed"))
    /\ UNCHANGED <<cache, lastCall, hydro_variable_options, county_list, wria_list,
                   velma_list, sess, callVars>>

\* the import raised: the process serves no session
Aborted == pc \in {"aborted36", "aborted70", "aborted71", "aborted72", "aborted122"}

Import ==
    \/ ImportSample
    \/ ImportLoad("counties", "line70", "line71", "aborted70")
    \/ ImportLoad("wrias", "line71", "line72", "aborted71")
    \/ ImportLoad("velma", "line72", "line74", "aborted72")
    \/ ImportLists
    \/ ImportUi

----------------------------------------------------------------------------
(* A session of server(): input messages, each followed by its flush *)

RiverInputs == {river_choices[i] : i \in 1 .. NumRivers}

RECURSIVE SumOver(_, _)
SumOver(f, S) ==
    IF S = {} THEN 0
    ELSE LET x == CHOOSE y \in S : TRUE IN f[x] + SumOver(f, S \ {x})

\* the fetch a flush would make stays within MaxRiverFetches
MayFetch(old, new) ==
    (HydroDataStale(old, new) /\ new.river \in DOMAIN river_files)
        => SumOver(fetches, Range(river_files)) < MaxRiverFetches

\* a fetch succeeds or fails; a Calc that does not fetch has one outcome
Outcomes(fetch) == IF fetch THEN BOOLEAN ELSE {TRUE}

Message(s, new) ==
    /\ pc = "running"
    /\ MayFetch(sess[s], new)
    /\ \E okLcc \in Outcomes(RegionTypeStale(sess[s], new)
                                /\ DatasetName(new.region_type) \notin DOMAIN cache),
          okHydro \in Outcomes(HydroDataStale(sess[s], new)) :
       \E old \in {sess[s]}, nw \in {new} :
       \E sd \in {selected_dataset(old, nw, cache, fetches, lastCall, okLcc)} :
       \E p1 \in {plot_lcc(old, nw, sd.calc, sd.cache)} :
       \E p2 \in {plot_lcc_area(old, nw, sd.calc, p1.cache)} :
       \E hd \in {hydro_data(old, nw, sd.fetches, okHydro)} :
       \E hs \in {hydro_summary(old, nw, hd.calc)} :
       \E choices \in {region_selector(nw.region_type, county_list, wria_list, velma_list)} :
        /\ sess' = [sess EXCEPT ![s] =
                [nw EXCEPT
                    !.region_selector = IF RegionTypeStale(old, nw) THEN choices ELSE @,
                    !.pending = IF RegionTypeStale(old, nw)
                                THEN choices # << >> /\ Head(choices) # nw.region_name
                                ELSE @,
                    !.selected_dataset = sd.calc,
                    !.plot_lcc = p1.out,
                    !.plot_lcc_area = p2.out,
                    !.hydro_data = [hd.calc EXCEPT !.df = hs.src],
                    !.hydro_summary = hs.calc,
                    !.timeseries_plot = timeseries_plot(old, nw, hs.calc),
                    !.fetched = IF hd.fetches # sd.fetches /\ hd.calc.status = "ok"
                                THEN @ \cup {nw.river} ELSE @]]
        /\ cache' = p2.cache
        /\ fetches' = hd.fetches
        /\ lastCall' = sd.lastCall
    /\ UNCHANGED <<pc, hydro_variable_options, county_list, wria_list, velma_list,
                   watershed_choices, callVars>>

\* the browser connects and sends the values of the widgets of app_ui; the
\* region_name select is not on the page before region_selector has rendered
SessionStart(s) ==
    /\ ~sess[s].open
    /\ \A t \in 1 .. s - 1 : sess[t].open     \* sessions are numbered as they connect
    /\ pc = "running"
    /\ Message(s, [Closed EXCEPT !.open = TRUE,
                                 !.region_type = region_type_choices[1],
                                 !.river = river_choices[1],
                                 !.variable = hydro_variable_options[1],
                                 !.velma_var = velma_var_choices[1],
                                 !.velma_watershed = watershed_choices[1]])

SetRegionType(s, t) ==
    /\ sess[s].open
    /\ t # sess[s].region_type
    /\ Message(s, [sess[s] EXCEPT !.region_type = t])

\* the browser binds the select that region_selector rendered and sends its value
ClientDeliver(s) ==
    /\ sess[s].open
    /\ sess[s].pending
    /\ Message(s, [sess[s] EXCEPT !.region_name = Head(sess[s].region_selector),
                                  !.pending = FALSE])

SetRegionName(s, n) ==
    /\ sess[s].open
    /\ ~sess[s].pending
    /\ n \in Range(sess[s].region_selector)
    /\ n # sess[s].region_name
    /\ Message(s, [sess[s] EXCEPT !.region_name = n])

SetRiver(s, r) ==
    /\ sess[s].open
    /\ r # sess[s].river
    /\ Message(s, [sess[s] EXCEPT !.river = r])

SetVariable(s, v) ==
    /\ sess[s].open
    /\ v # sess[s].variable
    /\ Message(s, [sess[s] EXCEPT !.variable = v])

SetVelmaVar(s, v) ==
    /\ sess[s].open
    /\ v # sess[s].velma_var
    /\ Message(s, [sess[s] EXCEPT !.velma_var = v])

SetVelmaWatershed(s, w) ==
    /\ sess[s].open
    /\ w # sess[s].velma_watershed
    /\ Message(s, [sess[s] EXCEPT !.velma_watershed = w])

Landcover(s) ==
    \/ SessionStart(s)
    \/ \E t \in Range(region_type_choices) : SetRegionType(s, t)
    \/ ClientDeliver(s)
    \/ \E n \in Range(county_list) \cup Range(wria_list) \cup Range(velma_list) :
        SetRegionName(s, n)

Explorers(s) ==
    \/ \E r \in RiverInputs : SetRiver(s, r)
    \/ \E v \in Range(hydro_variable_options) : SetVariable(s, v)
    \/ \E v \in Range(velma_var_choices) : SetVelmaVar(s, v)
    \/ \E w \in Range(watershed_choices) : SetVelmaWatershed(s, w)

\* one user on every tab of the page
Next == Import \/ Landcover(1) \/ Explorers(1)

Spec == Init /\ [][Next]_vars

\* several users on the Landcover Dashboard, sharing the process and its cache
NextShared == Import \/ \E s \in Sessions : Landcover(s)

SpecShared == Init /\ [][NextShared]_vars

----------------------------------------------------------------------------
(* load_lcc_dataset called directly, any name, any outcome of the fetch *)

LoaderNames == DOMAIN lcc_data \cup {"parcels"}

InitLoader ==
    /\ pc = "direct"
    /\ cache = << >>
    /\ fetches = [u \in AllUrls |-> 0]
    /\ lastCall = NoCall
    /\ hydro_variable_options = << >>
    /\ county_list = << >>
    /\ wria_list = << >>
    /\ velma_list = << >>
    /\ watershed_choices = << >>
    /\ sess = [s \in Sessions |-> Closed]
    /\ frame = << >>
    /\ region = NoValue
    /\ chart = NoChart

CallLoad(name, ok) ==
    /\ pc = "direct"
    /\ name \in DOMAIN lcc_data => fetches[lcc_data[name]] < MaxFetch
    /\ \E ld \in {load_lcc_dataset(cache, fetches, name, ok)} :
        /\ cache' = ld.cache
        /\ fetches' = ld.fetches
        /\ lastCall' = CallRecord(ld)
    /\ UNCHANGED <<pc, hydro_variable_options, county_list, wria_list, velma_list,
                   watershed_choices, sess, callVars>>

NextLoader == \E name \in LoaderNames, ok \in BOOLEAN : CallLoad(name, ok)

SpecLoader == InitLoader /\ [][NextLoader]_vars

----------------------------------------------------------------------------
(* The chart functions called directly, on any frame of at most MaxRows rows *)

RowKinds ==
    {LccRow(f, y, c, v[1], v[2]) :
        f \in {"King", "Pierce"}, y \in {2020, 2021}, c \in {"Forest", "Wetland"},
        v \in {<<-1, 1>>, <<2, 3>>}}

Frames == UNION {[1 .. n -> RowKinds] : n \in 0 .. MaxRows}

InitPivot ==
    /\ pc = "direct"
    /\ cache = << >>
    /\ fetches = [u \in AllUrls |-> 0]
    /\ lastCall = NoCall
    /\ hydro_variable_options = << >>
    /\ county_list = << >>
    /\ wria_list = << >>
    /\ velma_list = << >>
    /\ watershed_choices = << >>
    /\ sess = [s \in Sessions |-> Closed]
    /\ frame \in Frames
    /\ region \in {"King", "Pierce"}
    /\ chart = NoChart

CallMakeLccPlot ==
    /\ pc = "direct"
    /\ \E ax \in {make_lcc_plot(frame, region)} :
        /\ chart' = [fn |-> "make_lcc_plot", ax |-> ax]
        /\ frame' = ax.src
    /\ UNCHANGED <<appVars, region>>

CallMakeLccAreaPlot ==
    /\ pc = "direct"
    /\ \E ax \in {make_lcc_area_plot(frame, region)} :
        /\ chart' = [fn |-> "make_lcc_area_plot", ax |-> ax]
        /\ frame' = ax.src
    /\ UNCHANGED <<appVars, region>>

NextPivot == CallMakeLccPlot \/ CallMakeLccAreaPlot

SpecPivot == InitPivot /\ [][NextPivot]_vars

----------------------------------------------------------------------------
(* Properties *)

Features(df) == {df[i].Feature_Name : i \in DOMAIN df}

LccUrls == Range(lcc_data)

RiverUrls == Range(river_files)

Open(s) == sess[s].open

\* C1: each of counties, wrias and velma is fetched at most once, whatever the
\* sessions request: every selected_dataset of an open session holds a frame of
\* the cache, and no url of lcc_data has been read more than once.
C1_FetchedAtMostOnce ==
    /\ \A n \in DOMAIN lcc_data : fetches[lcc_data[n]] <= 1
    /\ \A n \in DOMAIN cache : fetches[lcc_data[n]] = 1
    /\ \A s \in Sessions : Open(s) =>
        /\ sess[s].selected_dataset.status = "ok"
        /\ sess[s].selected_dataset.name \in DOMAIN cache
    /\ (pc = "running" /\ \E s \in Sessions : Open(s)) => lastCall.hit /\ ~lastCall.fetched

\* two sessions have asked for different datasets after the import loaded them
C1_Witness ==
    /\ Open(1) /\ Open(2)
    /\ sess[1].selected_dataset.name = "wrias"
    /\ sess[2].selected_dataset.name = "velma"
    /\ lastCall.hit
    /\ \A n \in DOMAIN lcc_data : fetches[lcc_data[n]] = 1

\* C2: in every session the choices of the region_name select are exactly the
\* distinct Feature_Name values, each once, of the frame selected_dataset holds,
\* and that frame is counties for County, velma for VELMA watershed, else wrias.
C2_ChoicesMatchDataset ==
    \A s \in Sessions : Open(s) =>
        LET t == sess[s].region_type
            expected == CASE t = "County" -> "counties"
                          [] t = "VELMA watershed" -> "velma"
                          [] OTHER -> "wrias"
        IN  /\ sess[s].selected_dataset.name = expected
            /\ Range(sess[s].region_selector) = Features(cache[expected])
            /\ Cardinality(Range(sess[s].region_selector)) = Len(sess[s].region_selector)

\* the region type was changed to WRIA while a county was selected
C2_Witness ==
    /\ Open(1)
    /\ sess[1].region_type = "WRIA"
    /\ sess[1].region_name \in Features(CountiesCsv)
    /\ sess[1].region_selector = <<"Cedar">>

\* C3, as claimed: no step fetches the CSV of a river that the session has
\* already fetched, and a message that leaves river as it is fetches no river
\* CSV.
C3_NeverRefetched ==
    [][\A s \in Sessions :
          /\ \A r \in sess[s].fetched :
                fetches'[river_files[r]] = fetches[river_files[r]]
          /\ (Open(s) /\ sess'[s].river = sess[s].river) =>
                \A u \in RiverUrls : fetches'[u] = fetches[u]]_vars

\* C3, amended: in an open session a message that leaves river as it is fetches
\* no river CSV, and a message that changes river fetches the CSV of the new
\* river once and no other, also when the session has fetched it before.
C3_FetchPerRiverChange ==
    [][\A s \in Sessions : (Open(s) /\ sess'[s] # sess[s]) =>
          IF sess'[s].river = sess[s].river
          THEN \A u \in RiverUrls : fetches'[u] = fetches[u]
          ELSE /\ fetches'[river_files[sess'[s].river]] =
                      fetches[river_files[sess'[s].river]] + 1
               /\ \A u \in RiverUrls \ {river_files[sess'[s].river]} :
                      fetches'[u] = fetches[u]]_vars

\* river A, then B, then A again: A was read at import, at the start of the
\* session and on the way back
C3_Witness ==
    /\ Open(1)
    /\ sess[1].fetched = {"Pullayup", "Snohomish"}
    /\ sess[1].river = "Pullayup"
    /\ sess[1].variable = "Temp"
    /\ fetches[river_files["Pullayup"]] = 3
    /\ fetches[river_files["Snohomish"]] = 1

\* C4: every frame in the cache is the frame of a successful fetch; a call whose
\* fetch fails raises after that one fetch and leaves the cache as it was,
\* without an entry for the name; the next call for that name misses and
\* fetches again.
C4_FailureNotCached ==
    [][/\ \A n \in DOMAIN cache' : n \in DOMAIN lcc_data /\ cache'[n] = Remote(lcc_data[n])
       /\ (lastCall'.raised /\ lastCall'.fetched) =>
            /\ cache' = cache
            /\ lastCall'.name \notin DOMAIN cache'
            /\ fetches'[lcc_data[lastCall'.name]] = fetches[lcc_data[lastCall'.name]] + 1
       /\ (lastCall.raised /\ lastCall.fetched /\ lastCall'.name = lastCall.name) =>
            /\ ~lastCall'.hit
            /\ lastCall'.fetched
            /\ fetches'[lcc_data[lastCall.name]] = fetches[lcc_data[lastCall.name]] + 1]_vars

\* the fetch of counties has failed twice in a row
C4_Witness ==
    /\ lastCall = [name |-> "counties", raised |-> TRUE, hit |-> FALSE, fetched |-> TRUE]
    /\ fetches[lcc_data["counties"]] = 2
    /\ "counties" \notin DOMAIN cache
    /\ "wrias" \in DOMAIN cache

\* the outputs of server() and the urls each one's value is computed from
Outputs == {"region_selector", "plot_lcc", "plot_lcc_area", "timeseries_plot"}

DependsOn(url) ==
    IF url \in LccUrls THEN {"region_selector", "plot_lcc", "plot_lcc_area"}
    ELSE IF url \in RiverUrls THEN {"timeseries_plot"}
    ELSE {}

\* the urls whose fetch has failed: at import, or in hydro_data of a session
FailedUrls ==
    (CASE pc = "aborted36" -> {river_files["Pullayup"]}
       [] pc = "aborted70" -> {lcc_data["counties"]}
       [] pc = "aborted71" -> {lcc_data["wrias"]}
       [] pc = "aborted72" -> {lcc_data["velma"]}
       [] pc = "aborted122" -> {velma_files["flow2011"]}
       [] OTHER -> {})
    \cup {river_files[sess[s].river] : s \in {x \in Sessions : sess[x].hydro_data.status = "error"}}

\* an output can render when the program serves sessions and, in an open
\* session, the output did not end in the error of a failed fetch
CanRender(o) ==
    /\ ~Aborted
    /\ \A s \in Sessions : Open(s) =>
        CASE o = "timeseries_plot" -> sess[s].hydro_data.status # "error"
          [] o = "region_selector" -> sess[s].region_selector # << >>
          [] OTHER -> sess[s].selected_dataset.status = "ok"

\* C5, as claimed: whichever fetch fails, every output that does not depend on
\* the fetched file can render.
C5_FailureIsLocal ==
    \A u \in FailedUrls : \A o \in Outputs \ DependsOn(u) : CanRender(o)

\* C5, amended: a fetch that fails in hydro_data fails timeseries_plot and no
\* other output: region_selector has rendered, and plot_lcc and plot_lcc_area
\* show their chart whenever the region_name they read is in their frame.  A
\* fetch that fails at import ends the program: no session is ever open.
C5_ReactiveFailureIsLocal ==
    /\ Aborted => \A s \in Sessions : ~Open(s)
    /\ \A s \in Sessions : Open(s) =>
        /\ sess[s].hydro_data.status = "error" <=> sess[s].timeseries_plot.status = "error"
        /\ sess[s].region_selector # << >>
        /\ sess[s].selected_dataset.status = "ok"
        /\ \A out \in {sess[s].plot_lcc, sess[s].plot_lcc_area} :
            /\ out.status \in {"silent", "ok", "error"}
            /\ out.status = "silent" <=> sess[s].region_name = NoValue
            /\ out.status = "ok" <=>
                 sess[s].region_name \in Features(cache[sess[s].selected_dataset.name])

\* the fetch of a river failed while the landcover charts are on display
C5_Witness ==
    /\ Open(1)
    /\ sess[1].hydro_data.status = "error"
    /\ sess[1].river = "Snohomish"
    /\ sess[1].timeseries_plot.status = "error"
    /\ sess[1].plot_lcc.status = "ok"
    /\ sess[1].plot_lcc_area.status = "ok"

RECURSIVE RowTotal(_, _)
RowTotal(row, cols) ==
    IF cols = {} THEN Rat(0, 1)
    ELSE LET c == CHOOSE x \in cols : TRUE
         IN  RatAdd(row[c], RowTotal(row, cols \ {c}))

RowsOf(df, f) == SelectSeq(df, LAMBDA r : r.Feature_Name = f)

RowsOfYear(df, f, y) == SelectSeq(df, LAMBDA r : r.Feature_Name = f /\ r.Year = y)

\* C7, as claimed: for either chart, the total of each Year's row of the pivot
\* is the sum of the value column over the rows of that region and Year, and
\* filtering the filtered frame again gives the same frame.
C7_TotalsAreSums ==
    /\ FilterRegion(FilterRegion(frame, region).new, region).new
         = FilterRegion(frame, region).new
    /\ chart.ax.status = "ok" =>
        LET col == IF chart.fn = "make_lcc_plot" THEN "diff_dev" ELSE "Developable_Area_km2"
        IN  \A y \in DOMAIN chart.ax.pivot.cell :
                RowTotal(chart.ax.pivot.cell[y], chart.ax.pivot.columns)
                    = Rat(SeqSum(Column(RowsOfYear(frame, region, y), col)), 1)

\* C8: the pivot of make_lcc_plot has one row per Year and one column per
\* Landcover_Class of the rows of the region, 0 where a pair has no row, and a
\* negative cell only where a row of the pair has a negative diff_dev; without
\* rows of the region there is no chart.
C8_PivotShape ==
    chart.fn = "make_lcc_plot" =>
        LET rows == RowsOf(frame, region)
            pivot == chart.ax.pivot
            pair(y, c) == SelectSeq(rows, LAMBDA r : r.Year = y /\ r.Landcover_Class = c)
        IN  /\ chart.ax.status = "ok" <=> rows # << >>
            /\ chart.ax.status = "ok" =>
                /\ Range(pivot.index) = {rows[i].Year : i \in DOMAIN rows}
                /\ Len(pivot.index) = Cardinality(Range(pivot.index))
                /\ DOMAIN pivot.cell = Range(pivot.index)
                /\ pivot.columns = {rows[i].Landcover_Class : i \in DOMAIN rows}
                /\ \A y \in DOMAIN pivot.cell :
                    /\ DOMAIN pivot.cell[y] = pivot.columns
                    /\ \A c \in pivot.columns :
                        /\ pair(y, c) = << >> => pivot.cell[y][c] = Rat(0, 1)
                        /\ pivot.cell[y][c].num < 0 =>
                             \E i \in DOMAIN pair(y, c) : pair(y, c)[i].diff_dev < 0

\* a region with two Years and two classes, a pair without a row and a
\* negative cell
C8_Witness ==
    /\ chart.fn = "make_lcc_plot"
    /\ chart.ax.status = "ok"
    /\ Len(chart.ax.pivot.index) = 2
    /\ Cardinality(chart.ax.pivot.columns) = 2
    /\ \E y \in DOMAIN chart.ax.pivot.cell : \E c \in chart.ax.pivot.columns :
        /\ chart.ax.pivot.cell[y][c] = Rat(0, 1)
        /\ \A i \in DOMAIN frame : ~(frame[i].Year = y /\ frame[i].Landcover_Class = c)
    /\ \E y \in DOMAIN chart.ax.pivot.cell : \E c \in chart.ax.pivot.columns :
        chart.ax.pivot.cell[y][c].num < 0
    /\ \E i \in DOMAIN frame : frame[i].Feature_Name # region

\* C9, as claimed: whenever plot_lcc or plot_lcc_area has charted, the
\* region_name it read is a Feature_Name of the frame it read.
C9_RegionNameInDataset ==
    \A s \in Sessions : Open(s) =>
        \A out \in {sess[s].plot_lcc, sess[s].plot_lcc_area} :
            out.status \in {"ok", "error"} =>
                out.region_name \in Features(cache[out.dataset])

\* C10: in every session the selected river is a key of river_files and the
\* region type resolves to a key of lcc_data, as does every choice of the two
\* widgets; the velma_var choices that are no key of velma_files are temp2011
\* and totN2011, and velma_var is one of the four choices.
C10_SelectionsRegistered ==
    /\ Range(river_choices) \subseteq DOMAIN river_files
    /\ \A t \in Range(region_type_choices) : DatasetName(t) \in DOMAIN lcc_data
    /\ {v \in Range(velma_var_choices) : v \notin DOMAIN velma_files}
         = {"temp2011", "totN2011"}
    /\ \A s \in Sessions : Open(s) =>
        /\ sess[s].river \in DOMAIN river_files
        /\ sess[s].selected_dataset.status = "ok"
        /\ sess[s].selected_dataset.name \in DOMAIN lcc_data
        /\ sess[s].velma_var \in Range(velma_var_choices)

\* Temperature is selected, and velma_files has no file for it
C10_Witness ==
    /\ Open(1)
    /\ sess[1].velma_var = "temp2011"
    /\ sess[1].velma_var \notin DOMAIN velma_files
    /\ sess[1].river = "Snohomish"
    /\ sess[1].region_type = "VELMA watershed"

====
